---- MODULE Spec2Model ----
(***************************************************************************)
(* Model of the video emotion analysis backend:                            *)
(*   src/backend/emotion_detector.py  frame sampling, face selection,      *)
(*                                    classification, per-frame pipeline   *)
(*   src/backend/main.py              job store, worker pool, handlers     *)
(*                                                                         *)
(* The specifications of the module:                                       *)
(*   FrameSpec  one call of EmotionDetector.analyze_frame                  *)
(*   VideoSpec  one call of EmotionDetector.analyze_video, statement by    *)
(*              statement (generator loop, then the per-frame loop)        *)
(*   Spec       the Flask handlers, the thread pool and the job store      *)
(*   FairSpec   Spec with the fairness the thread scheduler provides       *)
(***************************************************************************)
EXTENDS Integers, Sequences, FiniteSets, TLC

(***************************************************************************)
(* Bounds of the model                                                     *)
(***************************************************************************)
MaxFrames == 3      \* frames in a video file
MaxInterval == 2    \* |frame_interval| of a request
MaxJobs == 2        \* accepted /analyzeVideo requests
MaxSide == 2        \* frame height and width, in pixels
MaxFaces == 2       \* boxes returned by the face detector for one frame

None == "None"

\* an optional int argument: << >> is Python's None, << n >> the int n
NoArg == << >>
Arg(n) == << n >>

Min(a, b) == IF a < b THEN a ELSE b

(***************************************************************************)
(* EmotionDetectorSettings                                                 *)
(***************************************************************************)
keras_emotions ==
    << "angry", "disgust", "fear", "happy", "sad", "surprise", "neutral", "contempt" >>

(***************************************************************************)
(* Frames.  A frame is MaxSide x MaxSide pixels.  What the two black-box   *)
(* predictors do with it is part of the frame:                             *)
(*   det    "raise" when cvtColor/detectMultiScale raise on it             *)
(*   faces  the boxes (x, y, w, h) detectMultiScale returns, in its order  *)
(*   px     the pixel content, which decides what the Keras model returns  *)
(***************************************************************************)
PixKinds == {"bad", "a", "b"}

Boxes == { <<x, 0, w, h>> : x \in 0..1, w \in 0..MaxSide, h \in 1..MaxSide }

SeqsUpTo(S, n) == UNION { [1..k -> S] : k \in 0..n }

BrokenFrame == [det |-> "raise", faces |-> << >>, px |-> "bad"]

Frames ==
    { [det |-> "ok", faces |-> fs, px |-> p] : fs \in SeqsUpTo(Boxes, MaxFaces), p \in PixKinds }
        \cup {BrokenFrame}

(***************************************************************************)
(* Python helpers                                                          *)
(***************************************************************************)
\* PyMod with the remainder taken of the 1-based frame number
PyModOneBased(a, b) ==
    IF b > 0 THEN (a + 1) % b
    ELSE LET r == (a + 1) % (0 - b) IN IF r = 0 THEN 0 ELSE r + b

\* a % b of Python for a >= 0, b # 0: the result has the sign of b
PyMod(a, b) ==
    IF b > 0 THEN a % b
    ELSE LET r == a % (0 - b) IN IF r = 0 THEN 0 ELSE r + b

\* MaxFaceFrom with the running best replaced on an equal key too (last maximal)
RECURSIVE MaxFaceFromLast(_, _, _)
MaxFaceFromLast(faces, i, best) ==
    IF i > Len(faces) THEN best
    ELSE IF faces[i][3] * faces[i][4] >= best[3] * best[4]
         THEN MaxFaceFromLast(faces, i + 1, faces[i])
         ELSE MaxFaceFromLast(faces, i + 1, best)

\* max(faces, key=lambda b: b[2] * b[3]): the running best is replaced only
\* by a strictly larger key, so the first maximal element is returned
RECURSIVE MaxFaceFrom(_, _, _)
MaxFaceFrom(faces, i, best) ==
    IF i > Len(faces) THEN best
    ELSE IF faces[i][3] * faces[i][4] > best[3] * best[4]
         THEN MaxFaceFrom(faces, i + 1, faces[i])
         ELSE MaxFaceFrom(faces, i + 1, best)

MaxFace(faces) == MaxFaceFrom(faces, 2, faces[1])

\* ArgMaxFrom with the comparison reversed (np.argmin)
RECURSIVE ArgMinFrom(_, _, _)
ArgMinFrom(p, i, best) ==
    IF i > Len(p) THEN best - 1
    ELSE IF p[i] < p[best] THEN ArgMinFrom(p, i + 1, i)
         ELSE ArgMinFrom(p, i + 1, best)

\* np.argmax(prediction): 0-based index of the first maximal score
RECURSIVE ArgMaxFrom(_, _, _)
ArgMaxFrom(p, i, best) ==
    IF i > Len(p) THEN best - 1
    ELSE IF p[i] > p[best] THEN ArgMaxFrom(p, i + 1, i)
         ELSE ArgMaxFrom(p, i + 1, best)

ArgMax(p) == ArgMaxFrom(p, 2, 1)

(***************************************************************************)
(* EmotionDetector                                                         *)
(***************************************************************************)
\* frame[y:y+h, x:x+w]: numpy clips a slice to the array
CropFace(frame, bbox) ==
    LET x == bbox[1]
        y == bbox[2]
        w == bbox[3]
        h == bbox[4]
        y0 == Min(y, MaxSide)
        y1 == Min(y + h, MaxSide)
        x0 == Min(x, MaxSide)
        x1 == Min(x + w, MaxSide)
    IN  [px |-> frame.px, y0 |-> y0, rows |-> y1 - y0, x0 |-> x0, cols |-> x1 - x0]

\* ImgSize that looks at the height of the image only
ImgSizeRowsOnly(img) == img.rows * 3

\* ndarray.size of a 3-channel image
ImgSize(img) == img.rows * img.cols * 3

\* self.model.predict(...)[0] after resize/cvtColor/preprocess_input: a
\* deterministic function of the crop.  Scores are in units of 1/4.
ModelPredict(img) ==
    IF img.px = "bad" THEN [exc |-> "inference failed", prediction |-> << >>]
    ELSE IF img.px = "a"
         THEN [exc |-> None,
               prediction |-> [i \in 1..Len(keras_emotions) |->
                                  (i * img.cols + img.rows + img.x0) % 5]]
         ELSE [exc |-> None,
               prediction |-> [i \in 1..Len(keras_emotions) |-> 1]]

\* dict(zip(keys, values))
ZipDict(keys, values) ==
    LET n == Min(Len(keys), Len(values))
    IN  [k \in {keys[i] : i \in 1..n} |->
            values[CHOOSE i \in 1..n : keys[i] = k /\ \A j \in (i + 1)..n : keys[j] # k]]

DetectEmotion(face_img) ==
    LET out == ModelPredict(face_img)
    IN  IF out.exc # None
        THEN [emotion |-> "error", confidence |-> 0, error |-> out.exc]
        ELSE LET prediction == out.prediction
                 emotion_idx == ArgMax(prediction)
             IN  IF emotion_idx + 1 > Len(keras_emotions)
                 THEN [emotion |-> "error", confidence |-> 0,
                       error |-> "list index out of range"]
                 ELSE [emotion |-> keras_emotions[emotion_idx + 1],
                       confidence |-> prediction[emotion_idx + 1],
                       scores |-> ZipDict(keras_emotions, prediction)]

DetectFaces(frame) ==
    IF frame.det = "raise"
    THEN [exc |-> "detect_faces failed", faces |-> << >>]
    ELSE [exc |-> None, faces |-> frame.faces]

\* NoFace without the frame_index entry
NoFaceNoIndex(frame_idx) ==
    [emotion |-> "no_face_detected", confidence |-> 0]

NoFace(frame_idx) ==
    [frame_index |-> frame_idx, emotion |-> "no_face_detected", confidence |-> 0]

\* AnalyzeFrameRun whose except branch reports the default frame_idx, 0
AnalyzeFrameRunDefaultIdx(frame, frame_idx) ==
    LET det == DetectFaces(frame)
    IN  IF det.exc # None
        THEN [ret |-> [frame_index |-> 0, emotion |-> "error",
                       confidence |-> 0, error |-> det.exc],
              classified |-> << >>]
        ELSE IF Len(det.faces) = 0
        THEN [ret |-> NoFace(frame_idx), classified |-> << >>]
        ELSE LET bbox == MaxFace(det.faces)
                 face == CropFace(frame, bbox)
             IN  IF ImgSize(face) = 0
                 THEN [ret |-> NoFace(frame_idx), classified |-> << >>]
                 ELSE [ret |-> [frame_index |-> frame_idx] @@ DetectEmotion(face),
                       classified |-> << face >>]

\* analyze_frame: ret is the returned dict, classified the arguments of the
\* detect_emotion calls it made
AnalyzeFrameRun(frame, frame_idx) ==
    LET det == DetectFaces(frame)
    IN  IF det.exc # None
        THEN [ret |-> [frame_index |-> frame_idx, emotion |-> "error",
                       confidence |-> 0, error |-> det.exc],
              classified |-> << >>]
        ELSE IF Len(det.faces) = 0
        THEN [ret |-> NoFace(frame_idx), classified |-> << >>]
        ELSE LET bbox == MaxFace(det.faces)
                 face == CropFace(frame, bbox)
             IN  IF ImgSize(face) = 0
                 THEN [ret |-> NoFace(frame_idx), classified |-> << >>]
                 ELSE [ret |-> [frame_index |-> frame_idx] @@ DetectEmotion(face),
                       classified |-> << face >>]

AnalyzeFrame(frame, frame_idx) == AnalyzeFrameRun(frame, frame_idx).ret

(***************************************************************************)
(* Videos.  opens is what cap.isOpened() answers; frames are the frames    *)
(* cap.read() delivers before it reports the end of the stream.            *)
(***************************************************************************)
NoFaceFrame == [det |-> "ok", faces |-> << >>, px |-> "a"]
FaceFrame == [det |-> "ok", faces |-> << <<0, 0, 1, 1>>, <<0, 0, 2, 2>> >>, px |-> "a"]
TieFrame == [det |-> "ok", faces |-> << <<0, 0, 1, 2>>, <<0, 0, 2, 1>> >>, px |-> "b"]
BadFaceFrame == [det |-> "ok", faces |-> << <<1, 0, 1, 1>> >>, px |-> "bad"]
EmptyCropFrame == [det |-> "ok", faces |-> << <<0, 0, 0, 1>> >>, px |-> "a"]

SampleFrames ==
    {BrokenFrame, NoFaceFrame, FaceFrame, TieFrame, BadFaceFrame, EmptyCropFrame}

Videos ==
    { [opens |-> TRUE, frames |-> fr] : fr \in SeqsUpTo(SampleFrames, MaxFrames) }
        \cup { [opens |-> FALSE, frames |-> << >>] }

Intervals == (0 - MaxInterval)..MaxInterval

\* EmotionDetectorSettings.frame_interval
frame_interval == 5

\* list(extract_frames(video_path, interval)): the frames yielded before the
\* generator ends, or the exception it raises
RECURSIVE ExtractLoop(_, _, _, _)
ExtractLoop(video, interval, frame_count, acc) ==
    IF frame_count >= Len(video.frames)
    THEN [exc |-> None, frames |-> acc]
    ELSE IF interval = 0
    THEN [exc |-> "integer division or modulo by zero", frames |-> << >>]
    ELSE IF PyMod(frame_count, interval) = 0
    THEN ExtractLoop(video, interval, frame_count + 1,
                     Append(acc, video.frames[frame_count + 1]))
    ELSE ExtractLoop(video, interval, frame_count + 1, acc)

\* ExtractFrames that takes the default for interval 0 as it does for None
ExtractFramesZeroIsDefault(video, interval) ==
    LET n == IF interval = NoArg \/ interval[1] = 0 THEN frame_interval ELSE interval[1]
    IN  IF ~video.opens
        THEN [exc |-> "Cannot open video", frames |-> << >>]
        ELSE ExtractLoop(video, n, 0, << >>)

\* list(self.extract_frames(video_path, interval)): the frames collected, or
\* the exception extract_frames raised
ExtractFrames(video, interval) ==
    LET n == IF interval = NoArg THEN frame_interval ELSE interval[1]
    IN  IF ~video.opens
        THEN [exc |-> "Cannot open video", frames |-> << >>]
        ELSE ExtractLoop(video, n, 0, << >>)

\* AnalyzeLoop with the frames numbered from 1 (enumerate(frames, 1))
RECURSIVE AnalyzeLoopFromOne(_, _, _)
AnalyzeLoopFromOne(frames, idx, results) ==
    IF idx >= Len(frames) THEN results
    ELSE AnalyzeLoopFromOne(frames, idx + 1,
                            Append(results, AnalyzeFrame(frames[idx + 1], idx + 1)))

\* analyze_frames: enumerate(frames), one analyze_frame per frame, appended
RECURSIVE AnalyzeLoop(_, _, _)
AnalyzeLoop(frames, idx, results) ==
    IF idx >= Len(frames) THEN results
    ELSE AnalyzeLoop(frames, idx + 1,
                     Append(results, AnalyzeFrame(frames[idx + 1], idx)))

AnalyzeFrames(frames) == AnalyzeLoop(frames, 0, << >>)

\* analyze_video: the returned list, or the exception that leaves it
AnalyzeVideo(video, interval) ==
    LET ex == ExtractFrames(video, interval)
    IN  IF ex.exc # None
        THEN [exc |-> ex.exc, results |-> << >>]
        ELSE [exc |-> None, results |-> AnalyzeFrames(ex.frames)]

(***************************************************************************)
(* State                                                                   *)
(***************************************************************************)
VARIABLES
    fc,     \* one analyze_frame call: pc, frame, frame_idx, ret, classified
    vc,     \* one analyze_video call: pc, video, arg, interval, cap, frame_count,
            \*   yielded, frames, idx, results, exc
    job_results,    \* _job_results: job id -> [status, data]
    job_lock,       \* the thread that holds _job_lock, or Free
    backlog,        \* work queue of _job_pool: << [video_path, interval, job_id], ... >>
    worker,         \* the threads of _job_pool: pc and the locals of _run
    handler,        \* /analyzeVideo requests in progress: job id -> pc
    reader,         \* the /jobs/<job_id> request in progress, or its response
    requests        \* history: job id -> the (video_path, interval) it was accepted with

vars == << fc, vc, job_results, job_lock, backlog, worker, handler, reader, requests >>

jobVars == << job_results, job_lock, backlog, worker, handler, reader, requests >>

fcIdle == [pc |-> "off"]
vcIdle == [pc |-> "off"]

(***************************************************************************)
(* FrameSpec: one call of analyze_frame                                    *)
(***************************************************************************)
\* BackendSettings.workers (os.cpu_count() or 2)
workers == 2

Workers == 1..workers

Free == << "free", 0 >>

PyNone == [py |-> "None"]
PyList(items) == [py |-> "list", items |-> items]
ErrorDict(message) == [py |-> "dict", error |-> message]

\* backend_settings.upload_dir: file name -> video.  File 1 cannot be opened,
\* file 2 has no frame, file 3 has MaxFrames frames.
upload_dir ==
    << [opens |-> FALSE, frames |-> << >>],
       [opens |-> TRUE, frames |-> << >>],
       [opens |-> TRUE,
        frames |-> [i \in 1..MaxFrames |->
                      CASE i % 6 = 1 -> BrokenFrame
                        [] i % 6 = 2 -> FaceFrame
                        [] i % 6 = 3 -> BadFaceFrame
                        [] i % 6 = 4 -> TieFrame
                        [] i % 6 = 5 -> NoFaceFrame
                        [] OTHER -> EmptyCropFrame]] >>

\* the JSON bodies of the /analyzeVideo requests
Requests ==
    { [video_filename |-> 1, frame_interval |-> 1],
      [video_filename |-> 2, frame_interval |-> 0] }
        \cup { [video_filename |-> 3, frame_interval |-> n] : n \in 0..MaxInterval }

\* detector.analyze_video(video_path, interval) as _run calls it: a function of
\* the file and the interval
analyze_video ==
    [p \in DOMAIN upload_dir, n \in 0..MaxInterval |-> AnalyzeVideo(upload_dir[p], Arg(n))]

\* job ids a status request may name: every id submit can generate and one it cannot
StatusIds == 1..(MaxJobs + 1)

JobInit ==
    /\ job_results = << >>
    /\ job_lock = Free
    /\ backlog = << >>
    /\ worker = [w \in Workers |-> [pc |-> "idle"]]
    /\ handler = << >>
    /\ reader = [pc |-> "idle"]
    /\ requests = << >>

FrameInit ==
    /\ \E frame \in Frames, frame_idx \in 0..MaxFrames :
          fc = [pc |-> "call", frame |-> frame, frame_idx |-> frame_idx]
    /\ vc = vcIdle
    /\ JobInit

AnalyzeFrameCall ==
    /\ fc.pc = "call"
    /\ LET run == AnalyzeFrameRun(fc.frame, fc.frame_idx)
       IN  fc' = [pc |-> "returned", frame |-> fc.frame, frame_idx |-> fc.frame_idx,
                  ret |-> run.ret, classified |-> run.classified]
    /\ UNCHANGED << vc, jobVars >>

FrameNext == AnalyzeFrameCall

FrameSpec == FrameInit /\ [][FrameNext]_vars

(***************************************************************************)
(* VideoSpec: one call of analyze_video, statement by statement            *)
(***************************************************************************)
VideoInit ==
    /\ \E video \in Videos, arg \in {Arg(n) : n \in Intervals} \cup {NoArg} :
          vc = [pc |-> "call", video |-> video, arg |-> arg, interval |-> 0,
                cap |-> "none", frame_count |-> 0, yielded |-> << >>,
                frames |-> << >>, idx |-> 0, results |-> << >>, exc |-> None]
    /\ fc = fcIdle
    /\ JobInit

\* interval default, cv2.VideoCapture(video_path), isOpened check
OpenCapture ==
    /\ vc.pc = "call"
    /\ LET n == IF vc.arg = NoArg THEN frame_interval ELSE vc.arg[1]
       IN  IF vc.video.opens
           THEN vc' = [vc EXCEPT !.pc = "read", !.interval = n, !.cap = "open"]
           ELSE vc' = [vc EXCEPT !.pc = "raised", !.interval = n, !.cap = "unopened",
                                 !.exc = "Cannot open video"]
    /\ UNCHANGED << fc, jobVars >>

\* success, frame = cap.read(); break at the end of the stream
ReadFrame ==
    /\ vc.pc = "read"
    /\ IF vc.frame_count < Len(vc.video.frames)
       THEN vc' = [vc EXCEPT !.pc = "select"]
       ELSE vc' = [vc EXCEPT !.pc = "release"]
    /\ UNCHANGED << fc, jobVars >>

\* if frame_count % interval == 0: yield frame; frame_count += 1
SelectFrame ==
    /\ vc.pc = "select"
    /\ IF vc.interval = 0
       THEN vc' = [vc EXCEPT !.pc = "raised",
                             !.exc = "integer division or modulo by zero"]
       ELSE IF PyMod(vc.frame_count, vc.interval) = 0
       THEN vc' = [vc EXCEPT !.pc = "read",
                             !.frames = Append(@, vc.video.frames[vc.frame_count + 1]),
                             !.yielded = Append(@, vc.frame_count),
                             !.frame_count = @ + 1]
       ELSE vc' = [vc EXCEPT !.pc = "read", !.frame_count = @ + 1]
    /\ UNCHANGED << fc, jobVars >>

\* cap.release(); the generator is exhausted and list() returns
ReleaseCapture ==
    /\ vc.pc = "release"
    /\ vc' = [vc EXCEPT !.pc = "analyze", !.cap = "released"]
    /\ UNCHANGED << fc, jobVars >>

\* one iteration of the loop of analyze_frames
AnalyzeNextFrame ==
    /\ vc.pc = "analyze"
    /\ vc.idx < Len(vc.frames)
    /\ vc' = [vc EXCEPT !.results = Append(@, AnalyzeFrame(vc.frames[vc.idx + 1], vc.idx)),
                        !.idx = @ + 1]
    /\ UNCHANGED << fc, jobVars >>

\* return results
ReturnResults ==
    /\ vc.pc = "analyze"
    /\ vc.idx >= Len(vc.frames)
    /\ vc' = [vc EXCEPT !.pc = "returned"]
    /\ UNCHANGED << fc, jobVars >>

VideoNext ==
    \/ OpenCapture
    \/ ReadFrame
    \/ SelectFrame
    \/ ReleaseCapture
    \/ AnalyzeNextFrame
    \/ ReturnResults

VideoSpec == VideoInit /\ [][VideoNext]_vars

\* the statement-by-statement run and the operator AnalyzeVideo agree
VideoRunAgrees ==
    /\ vc.pc = "returned" =>
          AnalyzeVideo(vc.video, vc.arg) = [exc |-> None, results |-> vc.results]
    /\ vc.pc = "raised" =>
          AnalyzeVideo(vc.video, vc.arg) = [exc |-> vc.exc, results |-> << >>]


(***************************************************************************)
(* Spec: the handlers of main.py, the worker pool and the job store        *)
(***************************************************************************)
Init ==
    /\ fc = fcIdle
    /\ vc = vcIdle
    /\ JobInit

\* uuid.uuid4().hex: an id no earlier request got
FreshJobId == Cardinality(DOMAIN job_results) + 1

\* SubmitAcquire that hands the job to the pool before it enters the lock
SubmitAcquireEarlyPool(video, interval) ==
    /\ video \in DOMAIN upload_dir
    /\ job_lock = Free
    /\ LET job_id == FreshJobId
       IN  /\ job_lock' = << "submit", job_id >>
           /\ handler' = handler @@ (job_id :> "locked")
           /\ requests' = requests @@ (job_id :> [video_path |-> video, interval |-> interval])
           /\ backlog' = Append(backlog, [video_path |-> video, interval |-> interval,
                                          job_id |-> job_id])
    /\ UNCHANGED << fc, vc, job_results, worker, reader >>

\* analyze_video (POST /analyzeVideo) up to "with _job_lock:": the request is
\* JSON, names a file of upload_dir, its frame_interval is an int; the handler
\* has its job id and enters the lock
SubmitAcquire(video, interval) ==
    /\ video \in DOMAIN upload_dir
    /\ job_lock = Free
    /\ LET job_id == FreshJobId
       IN  /\ job_lock' = << "submit", job_id >>
           /\ handler' = handler @@ (job_id :> "locked")
           /\ requests' = requests @@ (job_id :> [video_path |-> video, interval |-> interval])
    /\ UNCHANGED << fc, vc, job_results, backlog, worker, reader >>

\* _job_results[job_id] = {"status": "queued", "data": None}; the lock is left
SubmitWriteQueued(job_id) ==
    /\ job_id \in DOMAIN handler
    /\ handler[job_id] = "locked"
    /\ job_results' = [j \in DOMAIN job_results \cup {job_id} |->
                          IF j = job_id THEN [status |-> "queued", data |-> PyNone]
                          ELSE job_results[j]]
    /\ job_lock' = Free
    /\ handler' = [handler EXCEPT ![job_id] = "written"]
    /\ UNCHANGED << fc, vc, backlog, worker, reader, requests >>

\* SubmitToPool that hands the job to the pool twice
SubmitToPoolTwice(job_id) ==
    /\ job_id \in DOMAIN handler
    /\ handler[job_id] = "written"
    /\ LET item == [video_path |-> requests[job_id].video_path,
                    interval |-> requests[job_id].interval,
                    job_id |-> job_id]
       IN  backlog' = Append(Append(backlog, item), item)
    /\ handler' = [j \in DOMAIN handler \ {job_id} |-> handler[j]]
    /\ UNCHANGED << fc, vc, job_results, job_lock, worker, reader, requests >>

\* SubmitToPool that drops the job when no pool thread is idle
SubmitToPoolNoBacklog(job_id) ==
    /\ job_id \in DOMAIN handler
    /\ handler[job_id] = "written"
    /\ backlog' =
          IF \E w \in Workers : worker[w].pc = "idle"
          THEN Append(backlog, [video_path |-> requests[job_id].video_path,
                                interval |-> requests[job_id].interval,
                                job_id |-> job_id])
          ELSE backlog
    /\ handler' = [j \in DOMAIN handler \ {job_id} |-> handler[j]]
    /\ UNCHANGED << fc, vc, job_results, job_lock, worker, reader, requests >>

\* _job_pool.submit(_run, str(path), interval, job_id); the 202 response
SubmitToPool(job_id) ==
    /\ job_id \in DOMAIN handler
    /\ handler[job_id] = "written"
    /\ backlog' = Append(backlog, [video_path |-> requests[job_id].video_path,
                                   interval |-> requests[job_id].interval,
                                   job_id |-> job_id])
    /\ handler' = [j \in DOMAIN handler \ {job_id} |-> handler[j]]
    /\ UNCHANGED << fc, vc, job_results, job_lock, worker, reader, requests >>

\* WorkerTake with job_id read from the newest work item (a shared variable)
\* instead of the argument passed with the item
WorkerTakeSharedId(w) ==
    /\ worker[w].pc = "idle"
    /\ backlog # << >>
    /\ worker' = [worker EXCEPT ![w] = [pc |-> "run",
                                        video_path |-> Head(backlog).video_path,
                                        interval |-> Head(backlog).interval,
                                        job_id |-> backlog[Len(backlog)].job_id]]
    /\ backlog' = Tail(backlog)
    /\ UNCHANGED << fc, vc, job_results, job_lock, handler, reader, requests >>

\* WorkerTake where _run enters the lock before the analysis
WorkerTakeHoldingLock(w) ==
    /\ worker[w].pc = "idle"
    /\ backlog # << >>
    /\ job_lock = Free
    /\ job_lock' = << "worker", w >>
    /\ worker' = [worker EXCEPT ![w] = [pc |-> "run",
                                        video_path |-> Head(backlog).video_path,
                                        interval |-> Head(backlog).interval,
                                        job_id |-> Head(backlog).job_id]]
    /\ backlog' = Tail(backlog)
    /\ UNCHANGED << fc, vc, job_results, handler, reader, requests >>

\* an idle pool thread takes the oldest work item and calls _run with it
WorkerTake(w) ==
    /\ worker[w].pc = "idle"
    /\ backlog # << >>
    /\ worker' = [worker EXCEPT ![w] = [pc |-> "run",
                                        video_path |-> Head(backlog).video_path,
                                        interval |-> Head(backlog).interval,
                                        job_id |-> Head(backlog).job_id]]
    /\ backlog' = Tail(backlog)
    /\ UNCHANGED << fc, vc, job_results, job_lock, handler, reader, requests >>

\* RunAnalysis whose error message names the job, as the log line does
RunAnalysisJobMessage(w) ==
    /\ worker[w].pc = "run"
    /\ LET out == analyze_video[worker[w].video_path, worker[w].interval]
       IN  IF out.exc = None
           THEN worker' = [worker EXCEPT ![w] =
                              [pc |-> "computed", video_path |-> worker[w].video_path,
                               interval |-> worker[w].interval, job_id |-> worker[w].job_id,
                               status |-> "done", results |-> PyList(out.results)]]
           ELSE worker' = [worker EXCEPT ![w] =
                              [pc |-> "computed", video_path |-> worker[w].video_path,
                               interval |-> worker[w].interval, job_id |-> worker[w].job_id,
                               status |-> "error",
                               results |-> ErrorDict(<< "Job", worker[w].job_id, "failed", out.exc >>)]]
    /\ UNCHANGED << fc, vc, job_results, job_lock, backlog, handler, reader, requests >>

\* RunAnalysis whose except branch leaves results None
RunAnalysisNoErrorData(w) ==
    /\ worker[w].pc = "run"
    /\ LET out == analyze_video[worker[w].video_path, worker[w].interval]
       IN  IF out.exc = None
           THEN worker' = [worker EXCEPT ![w] =
                              [pc |-> "computed", video_path |-> worker[w].video_path,
                               interval |-> worker[w].interval, job_id |-> worker[w].job_id,
                               status |-> "done", results |-> PyList(out.results)]]
           ELSE worker' = [worker EXCEPT ![w] =
                              [pc |-> "computed", video_path |-> worker[w].video_path,
                               interval |-> worker[w].interval, job_id |-> worker[w].job_id,
                               status |-> "error", results |-> PyNone]]
    /\ UNCHANGED << fc, vc, job_results, job_lock, backlog, handler, reader, requests >>

\* RunAnalysis whose except branch does not set status to "error"
RunAnalysisStatusDone(w) ==
    /\ worker[w].pc = "run"
    /\ LET out == analyze_video[worker[w].video_path, worker[w].interval]
       IN  IF out.exc = None
           THEN worker' = [worker EXCEPT ![w] =
                              [pc |-> "computed", video_path |-> worker[w].video_path,
                               interval |-> worker[w].interval, job_id |-> worker[w].job_id,
                               status |-> "done", results |-> PyList(out.results)]]
           ELSE worker' = [worker EXCEPT ![w] =
                              [pc |-> "computed", video_path |-> worker[w].video_path,
                               interval |-> worker[w].interval, job_id |-> worker[w].job_id,
                               status |-> "done", results |-> ErrorDict(out.exc)]]
    /\ UNCHANGED << fc, vc, job_results, job_lock, backlog, handler, reader, requests >>

\* _run: the try/except around detector.analyze_video(video_path, interval)
RunAnalysis(w) ==
    /\ worker[w].pc = "run"
    /\ LET out == analyze_video[worker[w].video_path, worker[w].interval]
       IN  IF out.exc = None
           THEN worker' = [worker EXCEPT ![w] =
                              [pc |-> "computed", video_path |-> worker[w].video_path,
                               interval |-> worker[w].interval, job_id |-> worker[w].job_id,
                               status |-> "done", results |-> PyList(out.results)]]
           ELSE worker' = [worker EXCEPT ![w] =
                              [pc |-> "computed", video_path |-> worker[w].video_path,
                               interval |-> worker[w].interval, job_id |-> worker[w].job_id,
                               status |-> "error", results |-> ErrorDict(out.exc)]]
    /\ UNCHANGED << fc, vc, job_results, job_lock, backlog, handler, reader, requests >>

\* _run: with _job_lock:
RunAcquire(w) ==
    /\ worker[w].pc = "computed"
    /\ job_lock = Free
    /\ job_lock' = << "worker", w >>
    /\ worker' = [worker EXCEPT ![w].pc = "locked"]
    /\ UNCHANGED << fc, vc, job_results, backlog, handler, reader, requests >>

\* RunWrite that keeps only the jobs that are still queued and its own
RunWriteEvict(w) ==
    /\ worker[w].pc = "locked"
    /\ job_results' =
          [j \in { i \in DOMAIN job_results : job_results[i].status = "queued" }
                     \cup {worker[w].job_id} |->
              IF j = worker[w].job_id
              THEN [status |-> worker[w].status, data |-> worker[w].results]
              ELSE job_results[j]]
    /\ job_lock' = Free
    /\ worker' = [worker EXCEPT ![w] = [pc |-> "idle"]]
    /\ UNCHANGED << fc, vc, backlog, handler, reader, requests >>

\* RunWrite that hands a job that failed to the pool again
RunWriteRetry(w) ==
    /\ worker[w].pc = "locked"
    /\ job_results' = [j \in DOMAIN job_results \cup {worker[w].job_id} |->
                          IF j = worker[w].job_id
                          THEN [status |-> worker[w].status, data |-> worker[w].results]
                          ELSE job_results[j]]
    /\ job_lock' = Free
    /\ worker' = [worker EXCEPT ![w] = [pc |-> "idle"]]
    /\ backlog' =
          IF worker[w].status = "error"
          THEN Append(backlog, [video_path |-> worker[w].video_path,
                                interval |-> worker[w].interval,
                                job_id |-> worker[w].job_id])
          ELSE backlog
    /\ UNCHANGED << fc, vc, handler, reader, requests >>

\* _run: _job_results[job_id] = {"status": status, "data": results}; the lock
\* is left and the thread returns to the pool
RunWrite(w) ==
    /\ worker[w].pc = "locked"
    /\ job_results' = [j \in DOMAIN job_results \cup {worker[w].job_id} |->
                          IF j = worker[w].job_id
                          THEN [status |-> worker[w].status, data |-> worker[w].results]
                          ELSE job_results[j]]
    /\ job_lock' = Free
    /\ worker' = [worker EXCEPT ![w] = [pc |-> "idle"]]
    /\ UNCHANGED << fc, vc, backlog, handler, reader, requests >>

\* job_status (GET /jobs/<job_id>): with _job_lock:
StatusAcquire(job_id) ==
    /\ reader.pc # "locked"
    /\ job_lock = Free
    /\ job_lock' = << "status", 0 >>
    /\ reader' = [pc |-> "locked", job_id |-> job_id]
    /\ UNCHANGED << fc, vc, job_results, backlog, worker, handler, requests >>

\* JobStatusResponse over _job_results.get(job_id, <a queued job>)
JobStatusResponseDefault(job_id, found, info) ==
    IF ~found
    THEN [code |-> 200, job_id |-> job_id, status |-> "queued", data |-> PyNone]
    ELSE [code |-> 200, job_id |-> job_id, status |-> info.status, data |-> info.data]

\* jsonify(error="job not found"), 404  /  jsonify(job_id=job_id, **info)
JobStatusResponse(job_id, found, info) ==
    IF ~found
    THEN [code |-> 404, error |-> "job not found"]
    ELSE [code |-> 200, job_id |-> job_id, status |-> info.status, data |-> info.data]

\* info = _job_results.get(job_id); the lock is left and the response is sent
StatusRead ==
    /\ reader.pc = "locked"
    /\ LET job_id == reader.job_id
           found == job_id \in DOMAIN job_results
           info == IF found THEN job_results[job_id] ELSE PyNone
       IN  reader' = [pc |-> "responded", job_id |-> job_id,
                      response |-> JobStatusResponse(job_id, found, info)]
    /\ job_lock' = Free
    /\ UNCHANGED << fc, vc, job_results, backlog, worker, handler, requests >>

\* the steps of the backend while fewer than limit jobs were accepted
JobNext(limit, reqs) ==
    \/ \E req \in reqs :
          /\ FreshJobId <= limit
          /\ SubmitAcquire(req.video_filename, req.frame_interval)
    \/ \E job_id \in DOMAIN handler : SubmitWriteQueued(job_id)
    \/ \E job_id \in DOMAIN handler : SubmitToPool(job_id)
    \/ \E w \in Workers : WorkerTake(w)
    \/ \E w \in Workers : RunAnalysis(w)
    \/ \E w \in Workers : RunAcquire(w)
    \/ \E w \in Workers : RunWrite(w)
    \/ \E job_id \in StatusIds : StatusAcquire(job_id)
    \/ StatusRead

Next == JobNext(MaxJobs, Requests)

Spec == Init /\ [][Next]_vars

(***************************************************************************)
(* FairSpec: one job more than there are pool threads, a request that      *)
(* fails and one that succeeds.  Every thread that can take a step         *)
(* eventually takes it; a thread waiting for the lock gets it if the lock  *)
(* is free again and again.                                                *)
(***************************************************************************)
FairRequests ==
    { [video_filename |-> 3, frame_interval |-> 0],
      [video_filename |-> 3, frame_interval |-> 1] }

FairNext == JobNext(workers + 1, FairRequests)

Fairness ==
    /\ \A w \in Workers :
          /\ WF_vars(WorkerTake(w))
          /\ WF_vars(RunAnalysis(w))
          /\ SF_vars(RunAcquire(w))
          /\ WF_vars(RunWrite(w))
    /\ \A job_id \in 1..(workers + 1) :
          /\ WF_vars(SubmitWriteQueued(job_id))
          /\ WF_vars(SubmitToPool(job_id))
    /\ WF_vars(StatusRead)

FairSpec == Init /\ [][FairNext]_vars /\ Fairness

(***************************************************************************)
(* Properties of the frame sampler and of the per-frame pipeline           *)
(***************************************************************************)
CeilDiv(a, b) == (a + b - 1) \div b

Area(b) == b[3] * b[4]

\* the position of the first box of maximal area
FirstMaxIndex(faces) ==
    CHOOSE i \in 1..Len(faces) :
        /\ \A j \in 1..Len(faces) : Area(faces[j]) <= Area(faces[i])
        /\ \A j \in 1..(i - 1) : Area(faces[j]) < Area(faces[i])

\* a box as the face detector produces it: positive sides, inside the frame
InFrame(b) == b[3] > 0 /\ b[4] > 0 /\ b[1] + b[3] <= MaxSide /\ b[2] + b[4] <= MaxSide

\* the frame makes face detection or the classification of its crop raise
FrameFails(frame) ==
    \/ DetectFaces(frame).exc # None
    \/ LET run == AnalyzeFrameRun(frame, 0)
       IN  \E k \in 1..Len(run.classified) : ModelPredict(run.classified[k]).exc # None

\* C7: for every interval N >= 1 and every video of F frames, once the sampler
\* is exhausted it has yielded exactly ceil(F/N) frames, the frames at source
\* indices 0, N, 2N, ... (an index is yielded iff index mod N = 0), in
\* ascending order.
C7_SamplerYieldsEveryNth ==
    (vc.pc \in {"analyze", "returned"} /\ vc.interval >= 1) =>
        LET F == Len(vc.video.frames)
            N == vc.interval
        IN  /\ Len(vc.frames) = CeilDiv(F, N)
            /\ Len(vc.yielded) = CeilDiv(F, N)
            /\ \A k \in 1..Len(vc.yielded) :
                  /\ vc.yielded[k] = (k - 1) * N
                  /\ vc.frames[k] = vc.video.frames[(k - 1) * N + 1]
            /\ \A i \in 0..(F - 1) :
                  (\E k \in 1..Len(vc.yielded) : vc.yielded[k] = i) <=> (i % N = 0)

C7_Witness ==
    /\ vc.pc = "returned"
    /\ vc.interval = 2
    /\ Len(vc.video.frames) = 3
    /\ vc.yielded = << 0, 2 >>

\* C9: analyze_frames returns one result per input frame, in input order,
\* whichever frames fail: a frame whose detection or classification raises
\* gets its own result {frame_index: i, emotion: "error", confidence: 0.0,
\* error: message}, the frames after it are still analysed, and an exception
\* leaves analyze_video only from the sampler, before any frame is analysed.
C9_OneResultPerFrame ==
    /\ vc.pc = "returned" =>
          /\ Len(vc.results) = Len(vc.frames)
          /\ \A i \in 1..Len(vc.frames) :
                /\ vc.results[i].frame_index = i - 1
                /\ FrameFails(vc.frames[i]) =>
                      /\ DOMAIN vc.results[i] = {"frame_index", "emotion", "confidence", "error"}
                      /\ vc.results[i].emotion = "error"
                      /\ vc.results[i].confidence = 0
                /\ ~FrameFails(vc.frames[i]) => vc.results[i].emotion # "error"
    /\ vc.pc = "analyze" =>
          /\ Len(vc.results) = vc.idx
          /\ \A i \in 1..vc.idx : vc.results[i].frame_index = i - 1
    /\ vc.pc = "raised" => (vc.idx = 0 /\ vc.results = << >>)

C9_Witness ==
    /\ vc.pc = "returned"
    /\ vc.frames = << BrokenFrame, BadFaceFrame, FaceFrame >>
    /\ vc.results[1].emotion = "error"
    /\ vc.results[2].emotion = "error"
    /\ vc.results[3].emotion \notin {"error", "no_face_detected"}

\* C10: for every non-empty list of detected boxes the crop handed to the
\* classifier is the crop of the first box of maximal width*height in the
\* detector's order, and for boxes as the detector produces them (positive
\* sides, inside the frame) that crop is classified.
C10_LargestFaceFirst ==
    (fc.pc = "returned" /\ fc.frame.det = "ok" /\ Len(fc.frame.faces) > 0) =>
        LET faces == fc.frame.faces
            face == CropFace(fc.frame, faces[FirstMaxIndex(faces)])
        IN  /\ \A k \in 1..Len(fc.classified) : fc.classified[k] = face
            /\ Len(fc.classified) <= 1
            /\ (\A j \in 1..Len(faces) : InFrame(faces[j])) => fc.classified = << face >>

C10_Witness ==
    /\ fc.pc = "returned"
    /\ fc.frame.faces = << <<0, 0, 1, 2>>, <<0, 0, 2, 1>> >>
    /\ fc.classified = << CropFace(fc.frame, <<0, 0, 1, 2>>) >>

\* the labels of keras_emotions
Labels == { keras_emotions[i] : i \in 1..Len(keras_emotions) }

\* the frame has no face to classify: no box, or an empty crop of the selected box
NothingToClassify(frame) ==
    \/ Len(frame.faces) = 0
    \/ LET face_img == CropFace(frame, frame.faces[FirstMaxIndex(frame.faces)])
       IN  face_img.rows = 0 \/ face_img.cols = 0

\* C11: when the face detector returns no box, or the crop of the selected box
\* has zero area, analyze_frame returns exactly {frame_index, emotion:
\* "no_face_detected", confidence: 0.0}, with no scores and no error entry, and
\* detect_emotion is not called.
C11_NoFaceFallback ==
    (fc.pc = "returned" /\ fc.frame.det = "ok" /\ NothingToClassify(fc.frame)) =>
        /\ DOMAIN fc.ret = {"frame_index", "emotion", "confidence"}
        /\ fc.ret.frame_index = fc.frame_idx
        /\ fc.ret.emotion = "no_face_detected"
        /\ fc.ret.confidence = 0
        /\ fc.classified = << >>

C11_Witness ==
    /\ fc.pc = "returned"
    /\ fc.frame.faces = << <<0, 0, 0, 1>>, <<1, 0, 0, 2>> >>
    /\ fc.frame.px = "a"
    /\ fc.ret.emotion = "no_face_detected"

\* C12: every result of analyze_frame carries frame_index and has one of three
\* shapes: (a) a configured label with scores and no error; (b) "error" with
\* confidence 0.0, error and no scores; (c) "no_face_detected" with confidence
\* 0.0 and neither.  A classifier that raises gives shape (b).
C12_ResultShapes ==
    fc.pc = "returned" =>
        /\ "frame_index" \in DOMAIN fc.ret
        /\ fc.ret.frame_index = fc.frame_idx
        /\ \/ /\ DOMAIN fc.ret = {"frame_index", "emotion", "confidence", "scores"}
              /\ fc.ret.emotion \in Labels
           \/ /\ DOMAIN fc.ret = {"frame_index", "emotion", "confidence", "error"}
              /\ fc.ret.emotion = "error"
              /\ fc.ret.confidence = 0
           \/ /\ DOMAIN fc.ret = {"frame_index", "emotion", "confidence"}
              /\ fc.ret.emotion = "no_face_detected"
              /\ fc.ret.confidence = 0
        /\ (\E k \in 1..Len(fc.classified) : ModelPredict(fc.classified[k]).exc # None) =>
              (fc.ret.emotion = "error" /\ "error" \in DOMAIN fc.ret)

C12_Witness ==
    /\ fc.pc = "returned"
    /\ fc.frame.px = "bad"
    /\ Len(fc.classified) = 1
    /\ fc.ret.emotion = "error"
    /\ fc.ret.frame_index = 2

\* C16: a classification that succeeds returns as emotion the label at the
\* position of the first maximal score, as confidence scores[emotion], and
\* scores with exactly the configured labels as keys, the i-th label carrying
\* the i-th score of the model.
C16_ClassificationResult ==
    (fc.pc = "returned" /\ Len(fc.classified) = 1
        /\ ModelPredict(fc.classified[1]).exc = None) =>
        LET prediction == ModelPredict(fc.classified[1]).prediction
            r == fc.ret
        IN  /\ "scores" \in DOMAIN r
            /\ DOMAIN r.scores = Labels
            /\ \A i \in 1..Len(keras_emotions) : r.scores[keras_emotions[i]] = prediction[i]
            /\ r.emotion \in Labels
            /\ r.confidence = r.scores[r.emotion]
            /\ \A l \in Labels : r.scores[l] <= r.confidence
            /\ \E i \in 1..Len(keras_emotions) :
                  /\ keras_emotions[i] = r.emotion
                  /\ \A k \in 1..(i - 1) : prediction[k] < prediction[i]

C16_Witness ==
    /\ fc.pc = "returned"
    /\ fc.frame.px = "b"
    /\ Len(fc.classified) = 1
    /\ fc.ret.emotion = "angry"
    /\ fc.ret.confidence = 1
    /\ fc.ret.scores["contempt"] = 1

\* C13: the capture opened by extract_frames is released on every way the
\* sampling ends: once extract_frames has raised, or analyze_video has gone on
\* to the analysis or returned, no capture is still open.
C13_CaptureReleasedOnEveryExit ==
    vc.pc \in {"raised", "analyze", "returned"} => vc.cap # "open"

(***************************************************************************)
(* Properties of the job store                                             *)
(***************************************************************************)
Terminal == {"done", "error"}

JobIds == DOMAIN job_results

\* what _run stores for the job accepted with requests[j]
ExpectedOutcome(j) ==
    AnalyzeVideo(upload_dir[requests[j].video_path], Arg(requests[j].interval))

ExpectedData(j) ==
    IF ExpectedOutcome(j).exc = None
    THEN PyList(ExpectedOutcome(j).results)
    ELSE ErrorDict(ExpectedOutcome(j).exc)

\* C1: in every state of the store and in every snapshot a status read
\* returns, data is set iff status is done or error; a queued job has no data.
C1_DataIffTerminal ==
    /\ \A j \in JobIds :
          /\ job_results[j].status \in {"queued"} \cup Terminal
          /\ (job_results[j].data # PyNone) <=> (job_results[j].status \in Terminal)
    /\ (reader.pc = "responded" /\ reader.response.code = 200) =>
          /\ reader.response.status \in {"queued"} \cup Terminal
          /\ (reader.response.data # PyNone) <=> (reader.response.status \in Terminal)

C1_Witness ==
    /\ reader.pc = "responded"
    /\ reader.response.code = 200
    /\ reader.response.status = "error"
    /\ reader.response.data # PyNone
    /\ \E j \in JobIds : job_results[j].status = "queued" /\ job_results[j].data = PyNone

\* C2: a job enters the store as queued with no data, its record changes only
\* from queued to done or error, _run writes it only while it is queued, and a
\* done or error record never changes again.
C2_Step ==
    /\ \A j \in DOMAIN job_results' :
          j \notin JobIds => job_results'[j] = [status |-> "queued", data |-> PyNone]
    /\ \A j \in JobIds :
          /\ j \in DOMAIN job_results'
          /\ job_results[j].status \in Terminal => job_results'[j] = job_results[j]
          /\ job_results'[j] # job_results[j] =>
                (job_results[j].status = "queued" /\ job_results'[j].status \in Terminal)
    /\ \A w \in Workers :
          (worker[w].pc = "locked" /\ worker'[w].pc = "idle") =>
              /\ worker[w].job_id \in JobIds
              /\ job_results[worker[w].job_id].status = "queued"

C2_QueuedThenTerminalOnce == [][C2_Step]_vars

C2_Witness ==
    /\ \E j \in JobIds : job_results[j].status = "done"
    /\ \E j \in JobIds : job_results[j].status = "error"
    /\ \A w \in Workers : worker[w].pc = "idle"
    /\ backlog = << >>

\* C3: whatever the interleaving of two jobs on two workers, what a worker
\* holds for a job, what the store holds under the job's id and what a status
\* read returns for that id is the result of that job's own (video, interval).
C3_NoCrossWrite ==
    /\ \A w \in Workers :
          worker[w].pc \in {"computed", "locked"} =>
              worker[w].results = ExpectedData(worker[w].job_id)
    /\ \A j \in JobIds :
          job_results[j].status \in Terminal => job_results[j].data = ExpectedData(j)
    /\ (reader.pc = "responded" /\ reader.response.code = 200) =>
          /\ reader.response.job_id = reader.job_id
          /\ reader.response.data \in {PyNone, ExpectedData(reader.job_id)}

C3_Witness ==
    /\ worker[1].pc = "computed"
    /\ worker[2].pc = "locked"
    /\ worker[1].job_id = 2
    /\ worker[2].job_id = 1
    /\ ExpectedData(1) # ExpectedData(2)
    /\ reader.pc = "responded"
    /\ reader.job_id = 1

\* C4: a status read of an id that is not in the store answers 404 "job not
\* found", and no status read changes the store.
C4_Step ==
    (reader.pc = "locked" /\ reader'.pc = "responded") =>
        /\ job_results' = job_results
        /\ reader.job_id \notin JobIds =>
              reader'.response = [code |-> 404, error |-> "job not found"]
        /\ reader.job_id \in JobIds => reader'.response.code = 200

C4_UnknownJobNotFound == [][C4_Step]_vars

C4_Witness ==
    /\ reader.pc = "responded"
    /\ reader.response.code = 404
    /\ reader.job_id \notin JobIds
    /\ JobIds # {}

\* C5: under fair scheduling every job in the store eventually is done or
\* error, also when more jobs were accepted than the pool has threads.
C5_EveryJobTerminates ==
    \A j \in 1..(workers + 1) :
        (j \in JobIds) ~> (j \in JobIds /\ job_results[j].status \in Terminal)

C5_Witness ==
    /\ \A w \in Workers : worker[w].pc \in {"run", "computed", "locked"}
    /\ backlog # << >>

\* C6: a job whose analyze_video raises ends error with {error: message}, a job
\* whose analyze_video returns ends done with the list; the write of a failed
\* job leaves every other record as it was.
C6_Outcome ==
    \A j \in JobIds :
        job_results[j].status \in Terminal =>
            IF ExpectedOutcome(j).exc # None
            THEN job_results[j] = [status |-> "error",
                                   data |-> [py |-> "dict", error |-> ExpectedOutcome(j).exc]]
            ELSE job_results[j] = [status |-> "done",
                                   data |-> [py |-> "list", items |-> ExpectedOutcome(j).results]]

C6_Step ==
    \A w \in Workers :
        (worker[w].pc = "locked" /\ worker'[w].pc = "idle" /\ worker[w].status = "error") =>
            \A j \in JobIds : j # worker[w].job_id => job_results'[j] = job_results[j]

C6_ErrorStaysInItsJob == []C6_Outcome /\ [][C6_Step]_vars

C6_Witness ==
    /\ 1 \in JobIds
    /\ 2 \in JobIds
    /\ job_results[1] = [status |-> "error", data |-> ErrorDict("Cannot open video")]
    /\ job_results[2].status = "done"
    /\ Len(job_results[2].data.items) = 2

\* C8: a job on a video of F frames that opens, with interval N >= 1, ends
\* done with a list of ceil(F/N) results whose k-th entry (from 0) has
\* frame_index k.
C8_DoneWithSampledFrames ==
    \A j \in JobIds :
        LET video == upload_dir[requests[j].video_path]
            N == requests[j].interval
            F == Len(video.frames)
        IN  (job_results[j].status \in Terminal /\ video.opens /\ N >= 1) =>
                /\ job_results[j].status = "done"
                /\ job_results[j].data.py = "list"
                /\ Len(job_results[j].data.items) = CeilDiv(F, N)
                /\ \A k \in 0..(CeilDiv(F, N) - 1) :
                      job_results[j].data.items[k + 1].frame_index = k

C8_Witness ==
    \E j \in JobIds :
        /\ requests[j] = [video_path |-> 3, interval |-> 2]
        /\ job_results[j].status = "done"
        /\ Len(job_results[j].data.items) = 2
        /\ job_results[j].data.items[2].frame_index = 1

\* the number of places that hold job j for execution: work items of the
\* backlog and pool threads inside _run
Holders(j) ==
    Cardinality({ k \in 1..Len(backlog) : backlog[k].job_id = j })
        + Cardinality({ w \in Workers : worker[w].pc # "idle" /\ worker[w].job_id = j })

\* 1 while the handler of job j has not handed the job to the pool yet
Unsubmitted(j) == IF j \in DOMAIN handler THEN 1 ELSE 0

\* C14: _run is executed once for each job: a job that is queued is in exactly
\* one place (with its handler, in the backlog, or on one pool thread), a job
\* that is done or error is in none (no retry, no re-entry), and a pool thread
\* starts only a queued job that no other thread holds.
C14_Inv ==
    \A j \in DOMAIN requests :
        /\ Holders(j) <= 1
        /\ j \notin JobIds => Holders(j) = 0
        /\ j \in JobIds =>
              IF job_results[j].status = "queued"
              THEN Holders(j) + Unsubmitted(j) = 1
              ELSE Holders(j) + Unsubmitted(j) = 0

C14_Step ==
    \A w \in Workers :
        (worker[w].pc = "idle" /\ worker'[w].pc = "run") =>
            /\ worker'[w].job_id \in JobIds
            /\ job_results[worker'[w].job_id].status = "queued"
            /\ \A v \in Workers \ {w} :
                  worker[v].pc # "idle" => worker[v].job_id # worker'[w].job_id

C14_RunExactlyOnce == []C14_Inv /\ [][C14_Step]_vars

C14_Witness ==
    /\ worker[1].pc = "run"
    /\ worker[2].pc = "run"
    /\ worker[1].job_id # worker[2].job_id
    /\ worker[1].video_path = 1
    /\ worker[2].video_path = 1

\* C15: two jobs accepted for the same video and the same interval have two
\* ids and two store entries, and once both are done or error their records
\* are equal, whatever ran in between or at the same time.
C15_SameRequestSameResult ==
    /\ \A j \in DOMAIN requests : j \in JobIds \/ j \in DOMAIN handler
    /\ \A i \in JobIds : \A j \in JobIds \ {i} :
          (/\ requests[i] = requests[j]
           /\ job_results[i].status \in Terminal
           /\ job_results[j].status \in Terminal) =>
              job_results[i] = job_results[j]

C15_Witness ==
    /\ JobIds = {1, 2}
    /\ requests[1] = [video_path |-> 3, interval |-> 2]
    /\ requests[2] = requests[1]
    /\ job_results[1].status = "done"
    /\ job_results[2] = job_results[1]

\* the threads inside a "with _job_lock:" block
InLock ==
    { << "submit", j >> : j \in { i \in DOMAIN handler : handler[i] = "locked" } }
        \cup { << "worker", w >> : w \in { v \in Workers : worker[v].pc = "locked" } }
        \cup (IF reader.pc = "locked" THEN { << "status", 0 >> } ELSE {})

\* C17: the lock has at most one holder, the holder is the one thread inside
\* a "with _job_lock:" block, and no thread holds it while it runs or has just
\* run analyze_video; the store is written and read only by the holder, which
\* leaves the lock with that step.
C17_Inv ==
    /\ IF job_lock = Free THEN InLock = {} ELSE InLock = {job_lock}
    /\ \A w \in Workers :
          worker[w].pc \in {"run", "computed"} => job_lock # << "worker", w >>

C17_Step ==
    /\ job_results' # job_results => (job_lock \in InLock /\ job_lock' = Free)
    /\ \A w \in Workers :
          (worker[w].pc = "locked" /\ worker'[w].pc = "idle") =>
              job_lock = << "worker", w >>
    /\ \A j \in DOMAIN handler :
          (handler[j] = "locked" /\ handler'[j] = "written") =>
              job_lock = << "submit", j >>
    /\ (reader.pc = "locked" /\ reader'.pc = "responded") =>
          job_lock = << "status", 0 >>

C17_StoreUnderLock == []C17_Inv /\ [][C17_Step]_vars

C17_Witness ==
    /\ worker[1].pc = "run"
    /\ worker[2].pc = "computed"
    /\ reader.pc = "locked"
    /\ job_lock = << "status", 0 >>

\* C18: no step removes an id from the store; a status request, for an id
\* that is in the store or not, leaves the store as it was; the write of a
\* pool thread changes no record but that of its own job.
C18_Step ==
    /\ JobIds \subseteq DOMAIN job_results'
    /\ reader' # reader => job_results' = job_results
    /\ \A w \in Workers :
          (worker[w].pc = "locked" /\ worker'[w].pc = "idle") =>
              /\ DOMAIN job_results' = JobIds \cup {worker[w].job_id}
              /\ \A j \in JobIds \ {worker[w].job_id} : job_results'[j] = job_results[j]

C18_StoreOnlyGrows == [][C18_Step]_vars

C18_Witness ==
    /\ JobIds = {1, 2}
    /\ job_results[1].status = "done"
    /\ job_results[2].status = "error"
    /\ reader.pc = "responded"
    /\ reader.job_id = 3
    /\ reader.response.code = 404

\* C19: a job is in the backlog or on a pool thread only when its queued
\* record is in the store; a pool thread writes only the record of an id that
\* is in the store, and no step turns a done or error record into queued.
C19_Inv ==
    /\ \A k \in 1..Len(backlog) : backlog[k].job_id \in JobIds
    /\ \A w \in Workers : worker[w].pc # "idle" => worker[w].job_id \in JobIds
    /\ \A j \in DOMAIN handler : handler[j] = "locked" => j \notin JobIds

C19_Step ==
    /\ \A j \in JobIds :
          (j \in DOMAIN job_results' /\ job_results[j].status \in Terminal) =>
              job_results'[j].status # "queued"
    /\ \A w \in Workers :
          (worker[w].pc = "locked" /\ worker'[w].pc = "idle") =>
              worker[w].job_id \in JobIds

C19_QueuedBeforePool == []C19_Inv /\ [][C19_Step]_vars

C19_Witness ==
    /\ worker[1].pc = "computed"
    /\ job_results[worker[1].job_id].status = "queued"
    /\ 2 \in DOMAIN handler
    /\ handler[2] = "locked"
    /\ 2 \notin JobIds

\* job j was accepted with interval 0 for a video that opens and has a frame
ZeroInterval(j) ==
    /\ j \in DOMAIN requests
    /\ requests[j].interval = 0
    /\ upload_dir[requests[j].video_path].opens
    /\ Len(upload_dir[requests[j].video_path].frames) >= 1

\* C20: a job with interval 0 on a video that has a frame is never done and
\* never holds a list of frame results: in _run and in the store it is error
\* with {error: message}; and under fair scheduling it does reach error.
C20_Inv ==
    /\ \A w \in Workers :
          (worker[w].pc \in {"computed", "locked"} /\ ZeroInterval(worker[w].job_id)) =>
              /\ worker[w].status = "error"
              /\ DOMAIN worker[w].results = {"py", "error"}
              /\ worker[w].results.py = "dict"
    /\ \A j \in JobIds :
          ZeroInterval(j) =>
              \/ job_results[j] = [status |-> "queued", data |-> PyNone]
              \/ /\ job_results[j].status = "error"
                 /\ DOMAIN job_results[j].data = {"py", "error"}
                 /\ job_results[j].data.py = "dict"

C20_ZeroIntervalEndsError ==
    /\ []C20_Inv
    /\ \A j \in 1..(workers + 1) :
          (j \in JobIds /\ ZeroInterval(j)) ~>
              (j \in JobIds /\ job_results[j].status = "error")

C20_Witness ==
    /\ ZeroInterval(3)
    /\ 3 \in JobIds
    /\ job_results[3] = [status |-> "error",
                         data |-> ErrorDict("integer division or modulo by zero")]
    /\ job_results[1].status = "done"

====
